---------------------------- MODULE Spec2Model ----------------------------
(***************************************************************************)
(* ideation-buddy: freehand annotation of a whiteboard and of PDF pages.   *)
(* State machine of App (mode, tool, colour, file, annotation store), of   *)
(* one PDFLayer instance (document load, page canvases, export), of the    *)
(* PageCanvas controllers (one per page) and of the whiteboard Canvas.     *)
(* Each action is one event handler together with the re-render and the    *)
(* effects React runs for it before the next event is delivered.           *)
(***************************************************************************)
EXTENDS Integers, Sequences, FiniteSets, TLC

\* ------------------------------------------------------------------ bounds
\* committed strokes the pages hold together before pointer-downs stop being
\* delivered
MaxStrokes == 2
\* points one gesture captures before pointer-moves stop being delivered
MaxPoints == 2
\* AI requests that can be in flight at once
MaxRequests == 2

\* ------------------------------------------------------------------ inputs
\* page numbers of the documents used (1-based); a document has 1 or 2 pages
Pages == {1, 2}
\* pointer positions in client coordinates
ClientPoints == {[x |-> 15, y |-> 7], [x |-> 25, y |-> 7]}
\* the gesture used where the drawn data is not what is examined
TapPoint == [x |-> 15, y |-> 7]
MovePoint == [x |-> 25, y |-> 7]
\* getBoundingClientRect() of a canvas
CanvasRect == [left |-> 5, top |-> 7]
\* raster sample positions (surface-local), one row
Cells == {[x |-> cx, y |-> 0] : cx \in {0, 10, 20, 30}}
\* CSS size of a canvas (page canvas and whiteboard alike)
CanvasSize == [width |-> 32, height |-> 8]
\* window.devicePixelRatio in percent: a zoomed-out and a high-density display
DevicePixelRatios == {50, 200}

\* ------------------------------------------------------- program constants
DefaultLineWidth == 3
WbLineWidth == 3
EraserWidth == 20
Tools == {"pen", "eraser"}
PenColors == {"white", "black"}
Transparent == "transparent"
EraserStyle == "rgba(0,0,0,1)"

NoFile == [pages |-> 0]
FileTypes == {"application/pdf", "image/png"}

VARIABLES
    \* App
    mode, tool, penColor, pdfFile, pdfAnnotations,
    \* PDFLayer instance (exists while mode = "pdf" and a file is loaded)
    docState, numPages, pageCanvasRefs,
    \* per page: the page renderer has put its canvas into the page wrapper
    pageRendered,
    \* PageCanvas per page
    strokes, isDrawing, currentStroke, raster, ctx,
    \* whiteboard Canvas
    wbIsDrawing, wbLastPos, wbRaster, wbCtx,
    \* the export invocation being followed
    exp,
    \* window.devicePixelRatio, in percent
    devicePixelRatio,
    \* the scale of the context transform, in percent: per page canvas and
    \* of the whiteboard canvas
    scale, wbScale,
    \* the image getCapturedImage returned last
    captured,
    \* App: the processing flag, and conversationHistory.length > 0
    isProcessing, hasContext,
    \* per invocation of handleSendMessage / handleCapture: the await it is
    \* suspended at ("none": no such invocation)
    requests,
    \* services/azure: an Audio element is held in currentAudio
    currentAudio,
    \* history: per page, the points handed to the controller since its last
    \* pointer-down, and whether that pointer is still down
    gesture,
    \* history: the handler that ran last
    lastOp,
    \* history: the renderer has reported a load error for the current file
    loadFailed,
    \* history: the document the last successful export handed over
    exported,
    \* history: store and page controllers as they were when the shown
    \* document was last hidden by a switch to whiteboard mode
    hidden

appVars == <<mode, tool, penColor, pdfFile, pdfAnnotations>>
layerVars == <<docState, numPages, pageCanvasRefs, pageRendered>>
pageVars == <<strokes, isDrawing, currentStroke, raster, ctx>>
wbVars == <<wbIsDrawing, wbLastPos, wbRaster, wbCtx>>
envVars == <<devicePixelRatio>>
\* what the drawing, store, document and export handlers leave alone
scaleVars == <<scale, wbScale>>
aiVars == <<isProcessing, hasContext, requests, currentAudio>>
auxVars == <<envVars, captured, scaleVars, aiVars>>
histVars == <<gesture, lastOp, loadFailed, exported, hidden>>
vars ==
    <<appVars, layerVars, pageVars, wbVars, exp, envVars, captured, scaleVars,
      aiVars, histVars>>

\* ------------------------------------------------------------ canvas model
Min(a, b) == IF a <= b THEN a ELSE b
Max(a, b) == IF a >= b THEN a ELSE b

BlankRaster == [c \in Cells |-> Transparent]

\* state of a 2D context right after its canvas is (re)allocated
DefaultCtx == [strokeStyle |-> "#000000", lineWidth |-> 1,
               gco |-> "source-over"]

\* a cell is painted by the segment a-b of width w when it lies within w/2
\* of the segment's extent (round caps)
Covered(c, a, b, w) ==
    /\ 2 * Min(a.x, b.x) - w <= 2 * c.x
    /\ 2 * c.x <= 2 * Max(a.x, b.x) + w
    /\ 2 * Min(a.y, b.y) - w <= 2 * c.y
    /\ 2 * c.y <= 2 * Max(a.y, b.y) + w

\* ctx.stroke() of the path a -> b under the context state cx
StrokeSegment(px, a, b, cx) ==
    [c \in Cells |->
        IF Covered(c, a, b, cx.lineWidth)
        THEN IF cx.gco = "destination-out" THEN Transparent ELSE cx.strokeStyle
        ELSE px[c]]

RECURSIVE StrokePath(_, _, _)
\* ctx.moveTo(points[0]); ctx.lineTo(points[i]) for i >= 1; ctx.stroke()
StrokePath(px, points, cx) ==
    IF Len(points) < 2 THEN px
    ELSE StrokePath(StrokeSegment(px, points[1], points[2], cx),
                    Tail(points), cx)

currentColor(pc) == IF pc = "white" THEN "#ffffff" ELSE "#000000"

\* the context state PageCanvas sets before painting with tool t
PaintCtx_eraserPaints(t, color, lineWidth) ==
    [strokeStyle |-> IF t = "eraser" THEN EraserStyle ELSE color,
     lineWidth |-> IF t = "eraser" THEN EraserWidth ELSE lineWidth,
     gco |-> "source-over"]

PaintCtx_ownWidth(t, color, lineWidth) ==
    [strokeStyle |-> IF t = "eraser" THEN EraserStyle ELSE color,
     lineWidth |-> lineWidth,
     gco |-> IF t = "eraser" THEN "destination-out" ELSE "source-over"]

PaintCtx(t, color, lineWidth) ==
    [strokeStyle |-> IF t = "eraser" THEN EraserStyle ELSE color,
     lineWidth |-> IF t = "eraser" THEN EraserWidth ELSE lineWidth,
     gco |-> IF t = "eraser" THEN "destination-out" ELSE "source-over"]

RECURSIVE ReplayStrokes(_, _)
\* strokes.forEach of redrawCanvas
ReplayStrokes(px, ss) ==
    IF ss = <<>> THEN px
    ELSE LET s == Head(ss)
             nx == IF Len(s.points) < 2 THEN px
                   ELSE StrokePath(px, s.points,
                                   PaintCtx(s.tool, s.color, s.lineWidth))
         IN ReplayStrokes(nx, Tail(ss))

\* ctx.clearRect(0, 0, canvas.width, canvas.height): canvas.width is the CSS
\* width times the ratio, and the rectangle is taken in the context's user
\* space, which ctx.scale(dpr, dpr) made one CSS pixel per unit; the cleared
\* area therefore reaches to CSS position width * dpr in each direction
ClearRect(px) ==
    [c \in Cells |->
        IF /\ 100 * c.x <= CanvasSize.width * devicePixelRatio
           /\ 100 * c.y <= CanvasSize.height * devicePixelRatio
        THEN Transparent ELSE px[c]]

\* redrawCanvas on a canvas holding px: clearRect, then the replay of ss
redrawCanvas(px, ss) == ReplayStrokes(ClearRect(px), ss)

\* context state redrawCanvas leaves behind
RedrawCtx(cx, ss) ==
    LET drawn == {i \in 1..Len(ss) : Len(ss[i].points) >= 2}
    IN IF drawn = {} THEN [cx EXCEPT !.gco = "source-over"]
       ELSE LET s == ss[CHOOSE i \in drawn : \A j \in drawn : j <= i]
            IN [PaintCtx(s.tool, s.color, s.lineWidth)
                    EXCEPT !.gco = "source-over"]

\* the transform of a new context, and of a context whose canvas has just
\* been given a width or height: the identity
IdentityScale == 100

\* canvas.width = ...; canvas.height = ...
ResetTransform_keep(sc) == sc

ResetTransform(sc) == IdentityScale

\* ctx.scale(dpr, dpr)
ScaleBy(sc, dpr) == (sc * dpr) \div 100

\* the allocation of a raster: the canvas is sized, then the context scaled
AllocScale(sc) == ScaleBy(ResetTransform(sc), devicePixelRatio)

\* getCoordinates: client position minus the canvas' bounding-box origin
getCoordinates(e) == [x |-> e.x - CanvasRect.left, y |-> e.y - CanvasRect.top]

\* ------------------------------------------------------------- stroke model
Stroke(points, color, lineWidth, t) ==
    [points |-> points, color |-> color, lineWidth |-> lineWidth, tool |-> t]

NoAnnotations == [p \in Pages |-> <<>>]

\* ---------------------------------------------------------------- PDFLayer
\* the PageCanvas of page p is on screen
Mounted(p) ==
    /\ mode = "pdf"
    /\ pdfFile # NoFile
    /\ docState = "loaded"
    /\ p \in 1..numPages

SyncStrokes_keepLocal(initialStrokes, ss) == ss

\* the effect on [initialStrokes]: adopt the parent's sequence when one side
\* is empty and the other is not
SyncStrokes(initialStrokes, ss) ==
    IF Len(initialStrokes) = 0 /\ Len(ss) > 0 THEN <<>>
    ELSE IF Len(initialStrokes) > 0 /\ Len(ss) = 0 THEN initialStrokes
    ELSE ss

\* handleStrokesChange: { ...annotations, [pageNumber]: strokes }
handleStrokesChange_noSpread(annotations, pageNumber, ss) ==
    [NoAnnotations EXCEPT ![pageNumber] = ss]

handleStrokesChange_allPages(annotations, pageNumber, ss) ==
    [q \in Pages |-> ss]

handleStrokesChange(annotations, pageNumber, ss) ==
    [annotations EXCEPT ![pageNumber] = ss]

\* the dependency [initialStrokes] of the sync effect changed: annotations[p]
\* is another array than at the last render, or it is absent and the render
\* made a new [] for it
InitialStrokesChanged(ann, p) == ann[p] = <<>> \/ ann[p] # pdfAnnotations[p]

\* The re-render after a handler: every mounted PageCanvas receives
\* annotations[p] || [] as initialStrokes, runs the sync effect when that
\* dependency changed, and runs the effect on [strokes] (redrawCanvas) when
\* its strokes were replaced.
\* ann: the store after the handler; sMid, rMid, cMid: strokes, rasters and
\* contexts as the handler left them.
Rerender(ann, sMid, rMid, cMid) ==
    LET sNew == [p \in Pages |->
                    IF Mounted(p) /\ InitialStrokesChanged(ann, p)
                    THEN SyncStrokes(ann[p], sMid[p])
                    ELSE sMid[p]]
    IN /\ strokes' = sNew
       /\ raster' = [p \in Pages |->
                        IF Mounted(p) /\ sNew[p] # strokes[p]
                        THEN redrawCanvas(rMid[p], sNew[p]) ELSE rMid[p]]
       /\ ctx' = [p \in Pages |->
                        IF Mounted(p) /\ sNew[p] # strokes[p]
                        THEN RedrawCtx(cMid[p], sNew[p]) ELSE cMid[p]]

\* -------------------------------------------------------------- PageCanvas
RECURSIVE SumLen(_, _)
SumLen(f, S) ==
    IF S = {} THEN 0
    ELSE LET p == CHOOSE q \in S : TRUE IN Len(f[p]) + SumLen(f, S \ {p})

\* strokes held by the page canvases
TotalStrokes == SumLen(strokes, Pages)

\* currentStroke.current.push(point)
pushPoint_unshift(points, point) == <<point>> \o points

pushPoint(points, point) == Append(points, point)

\* currentStroke.current.length >= 2
ShouldCommit_one(points) == Len(points) >= 1

ShouldCommit(points) == Len(points) >= 2

\* [...strokes, newStroke]
AppendStroke_prepend(ss, s) == <<s>> \o ss

AppendStroke(ss, s) == Append(ss, s)

\* draw's early return: if (!isDrawing) return
DrawAccepts_always(p) == TRUE

DrawAccepts(p) == isDrawing[p]

\* stopDrawing's last statement: currentStroke.current = []
StrokeAfterStop_keepTap(points) ==
    IF Len(points) >= 2 THEN <<>> ELSE points

StrokeAfterStop(points) == <<>>

\* the effect on [width, height], for a render of PDFLayer that computes a
\* pageWidth other than the one its page canvases were allocated with: every
\* page canvas is reallocated (blank raster, default context) and then
\* redrawCanvas replays its strokes
pageResize ==
    /\ \E p \in Pages : Mounted(p)
    /\ Rerender(pdfAnnotations, strokes,
                [p \in Pages |-> IF Mounted(p)
                                 THEN redrawCanvas(BlankRaster, strokes[p])
                                 ELSE raster[p]],
                [p \in Pages |-> IF Mounted(p)
                                 THEN RedrawCtx(DefaultCtx, strokes[p])
                                 ELSE ctx[p]])
    /\ scale' = [p \in Pages |-> IF Mounted(p) THEN AllocScale(scale[p])
                                 ELSE scale[p]]
    /\ UNCHANGED <<envVars, captured, aiVars, wbScale, isDrawing,
                   currentStroke, appVars, layerVars, wbVars, exp>>

\* PageCanvasHandle.clear: setStrokes([]) and clearRect; the store is not
\* told, and the effect on [strokes] then redraws the empty sequence
pageClear(p) ==
    /\ Mounted(p)
    /\ strokes' = [strokes EXCEPT ![p] = <<>>]
    /\ raster' = [raster EXCEPT ![p] = redrawCanvas(ClearRect(@), <<>>)]
    /\ ctx' = [ctx EXCEPT ![p] = RedrawCtx(@, <<>>)]
    /\ UNCHANGED <<auxVars, isDrawing, currentStroke, appVars, layerVars,
                   wbVars, exp>>

\* PageCanvasHandle.redraw
pageRedraw(p) ==
    /\ Mounted(p)
    /\ raster' = [raster EXCEPT ![p] = redrawCanvas(@, strokes[p])]
    /\ ctx' = [ctx EXCEPT ![p] = RedrawCtx(@, strokes[p])]
    /\ UNCHANGED <<auxVars, strokes, isDrawing, currentStroke, appVars,
                   layerVars, wbVars, exp>>

\* onMouseDown / onTouchStart
startDrawing(p, e) ==
    /\ Mounted(p)
    /\ TotalStrokes < MaxStrokes
    /\ isDrawing' = [isDrawing EXCEPT ![p] = TRUE]
    /\ currentStroke' = [currentStroke EXCEPT ![p] = <<getCoordinates(e)>>]
    /\ Rerender(pdfAnnotations, strokes, raster, ctx)
    /\ UNCHANGED <<auxVars, appVars, layerVars, wbVars, exp>>

\* onMouseMove / onTouchMove
draw(p, e) ==
    /\ Mounted(p)
    /\ Len(currentStroke[p]) < MaxPoints
    /\ IF ~DrawAccepts(p)
       THEN UNCHANGED <<pageVars>>
       ELSE LET point == getCoordinates(e)
                points == pushPoint(currentStroke[p], point)
                cx == PaintCtx(tool, currentColor(penColor), DefaultLineWidth)
                painted == Len(points) >= 2
            IN /\ currentStroke' = [currentStroke EXCEPT ![p] = points]
               /\ Rerender(pdfAnnotations, strokes,
                     [raster EXCEPT ![p] =
                        IF painted
                        THEN StrokeSegment(@, points[Len(points) - 1],
                                           points[Len(points)], cx)
                        ELSE @],
                     [ctx EXCEPT ![p] = IF painted THEN cx ELSE @])
               /\ UNCHANGED isDrawing
    /\ UNCHANGED <<auxVars, appVars, layerVars, wbVars, exp>>

\* onMouseUp / onMouseLeave / onTouchEnd
stopDrawing(p) ==
    /\ Mounted(p)
    /\ IF ~isDrawing[p]
       THEN UNCHANGED <<pageVars, pdfAnnotations>>
       ELSE /\ isDrawing' = [isDrawing EXCEPT ![p] = FALSE]
            /\ currentStroke' = [currentStroke EXCEPT
                                    ![p] = StrokeAfterStop(@)]
            /\ IF ShouldCommit(currentStroke[p])
               THEN LET newStroke == Stroke(currentStroke[p],
                                            currentColor(penColor),
                                            DefaultLineWidth, tool)
                        newStrokes == AppendStroke(strokes[p], newStroke)
                        ann == handleStrokesChange(pdfAnnotations, p,
                                                   newStrokes)
                    IN /\ pdfAnnotations' = ann
                       /\ Rerender(ann, [strokes EXCEPT ![p] = newStrokes],
                                   raster, ctx)
               ELSE /\ UNCHANGED pdfAnnotations
                    /\ Rerender(pdfAnnotations, strokes, raster, ctx)
    /\ UNCHANGED <<auxVars, mode, tool, penColor, pdfFile, layerVars, wbVars,
                   exp>>

\* ------------------------------------------------------ whiteboard Canvas
\* the effect on [color, lineWidth, tool]
ToolEffect(t, pc) == PaintCtx(t, currentColor(pc), WbLineWidth)

\* Canvas.startDrawing
wbStartDrawing(e) ==
    /\ mode = "whiteboard"
    /\ wbIsDrawing' = TRUE
    /\ wbLastPos' = <<getCoordinates(e)>>
    /\ UNCHANGED <<auxVars, wbRaster, wbCtx, appVars, layerVars, pageVars, exp>>

\* Canvas.draw
wbDraw(e) ==
    /\ mode = "whiteboard"
    /\ IF ~wbIsDrawing \/ wbLastPos = <<>>
       THEN UNCHANGED <<wbRaster, wbLastPos>>
       ELSE /\ wbRaster' = StrokeSegment(wbRaster, wbLastPos[1],
                                         getCoordinates(e), wbCtx)
            /\ wbLastPos' = <<getCoordinates(e)>>
    /\ UNCHANGED <<auxVars, wbIsDrawing, wbCtx, appVars, layerVars, pageVars,
                   exp>>

\* Canvas.stopDrawing
wbStopDrawing ==
    /\ mode = "whiteboard"
    /\ wbIsDrawing' = FALSE
    /\ wbLastPos' = <<>>
    /\ UNCHANGED <<auxVars, wbRaster, wbCtx, appVars, layerVars, pageVars, exp>>

\* setupCanvas as the window's resize listener, for an event that changed the
\* canvas' bounding box (its guard on unchanged dimensions is then false):
\* assigning canvas.width/height blanks the raster and resets the context;
\* the canvas keeps its layout while hidden in PDF mode
wbResize ==
    /\ wbRaster' = BlankRaster
    /\ wbCtx' = DefaultCtx
    /\ wbScale' = AllocScale(wbScale)
    /\ UNCHANGED <<envVars, captured, aiVars, scale, wbIsDrawing, wbLastPos,
                   appVars, layerVars, pageVars, exp>>

\* --------------------------------------------------------------------- App
\* the PDFLayer instance leaves the screen: its page canvases are discarded
\* and an export it started keeps the handles it had registered
UnmountLayer ==
    /\ docState' = "none"
    /\ numPages' = 0
    /\ pageCanvasRefs' = {}
    /\ pageRendered' = [p \in Pages |-> FALSE]
    /\ strokes' = [p \in Pages |-> <<>>]
    /\ isDrawing' = [p \in Pages |-> FALSE]
    /\ currentStroke' = [p \in Pages |-> <<>>]
    /\ raster' = [p \in Pages |-> BlankRaster]
    /\ ctx' = [p \in Pages |-> DefaultCtx]
    /\ scale' = [p \in Pages |-> IdentityScale]
    /\ exp' = IF exp.pc \in {"read", "load", "pages", "save"} /\ ~exp.detached
              THEN [exp EXCEPT !.detached = TRUE, !.refs = pageCanvasRefs]
              ELSE exp

\* ModeSwitcher onSwitch = setMode
setMode(m) ==
    /\ mode' = m
    /\ IF m = mode \/ pdfFile = NoFile
       THEN UNCHANGED <<layerVars, pageVars, scale, exp>>
       ELSE IF m = "pdf"
            THEN /\ docState' = "loading"
                 /\ UNCHANGED <<numPages, pageCanvasRefs, pageRendered,
                                pageVars, scale, exp>>
            ELSE UnmountLayer
    /\ UNCHANGED <<envVars, captured, aiVars, wbScale, tool, penColor,
                   pdfFile, pdfAnnotations, wbVars>>

\* Toolbar onToolChange = setTool
setTool(t) ==
    /\ tool' = t
    /\ wbCtx' = IF t = tool THEN wbCtx ELSE ToolEffect(t, penColor)
    /\ Rerender(pdfAnnotations, strokes, raster, ctx)
    /\ UNCHANGED <<auxVars, mode, penColor, pdfFile, pdfAnnotations, layerVars,
                   isDrawing, currentStroke,
                   wbIsDrawing, wbLastPos, wbRaster, exp>>

\* Toolbar onPenColorChange = setPenColor (shown while the pen is selected)
setPenColor(pc) ==
    /\ tool = "pen"
    /\ penColor' = pc
    /\ wbCtx' = IF pc = penColor THEN wbCtx ELSE ToolEffect(tool, pc)
    /\ Rerender(pdfAnnotations, strokes, raster, ctx)
    /\ UNCHANGED <<auxVars, mode, tool, pdfFile, pdfAnnotations, layerVars,
                   isDrawing, currentStroke,
                   wbIsDrawing, wbLastPos, wbRaster, exp>>

\* the file input is rendered in PDF mode while no file is loaded
handleFileChange(type, n) ==
    /\ mode = "pdf"
    /\ pdfFile = NoFile
    /\ IF type = "application/pdf"
       THEN /\ pdfFile' = [pages |-> n]
            /\ pdfAnnotations' = NoAnnotations
            /\ docState' = "loading"
       ELSE UNCHANGED <<pdfFile, pdfAnnotations, docState>>
    /\ UNCHANGED <<auxVars, mode, tool, penColor, numPages,
                   pageCanvasRefs, pageRendered, pageVars,
                   wbVars, exp>>

\* the store after handleClear: setPdfAnnotations({}) in the else branch
ClearedStore_always(m, annotations) == NoAnnotations

ClearedStore(m, annotations) ==
    IF m = "whiteboard" THEN annotations ELSE NoAnnotations

handleClear_bothSurfaces ==
    /\ wbRaster' = ClearRect(wbRaster)
    /\ pdfAnnotations' = ClearedStore(mode, pdfAnnotations)
    /\ Rerender(ClearedStore(mode, pdfAnnotations), strokes, raster, ctx)
    /\ UNCHANGED <<auxVars, mode, tool, penColor, pdfFile, layerVars,
                   isDrawing, currentStroke,
                   wbIsDrawing, wbLastPos, wbCtx, exp>>

handleClear ==
    /\ wbRaster' = IF mode = "whiteboard" THEN ClearRect(wbRaster)
                    ELSE wbRaster
    /\ pdfAnnotations' = ClearedStore(mode, pdfAnnotations)
    /\ Rerender(ClearedStore(mode, pdfAnnotations), strokes, raster, ctx)
    /\ UNCHANGED <<auxVars, mode, tool, penColor, pdfFile, layerVars,
                   isDrawing, currentStroke,
                   wbIsDrawing, wbLastPos, wbCtx, exp>>

\* ------------------------------------------------- PDFLayer document load
onDocumentLoadSuccess ==
    /\ mode = "pdf"
    /\ docState = "loading"
    /\ docState' = "loaded"
    /\ numPages' = pdfFile.pages
    /\ pageCanvasRefs' = 1..pdfFile.pages
    /\ strokes' = [p \in Pages |->
                     IF p <= pdfFile.pages THEN pdfAnnotations[p] ELSE <<>>]
    /\ raster' = [p \in Pages |->
                     IF p <= pdfFile.pages
                     THEN redrawCanvas(BlankRaster, pdfAnnotations[p])
                     ELSE BlankRaster]
    /\ ctx' = [p \in Pages |->
                     IF p <= pdfFile.pages
                     THEN RedrawCtx(DefaultCtx, pdfAnnotations[p])
                     ELSE DefaultCtx]
    /\ scale' = [p \in Pages |->
                     IF p <= pdfFile.pages THEN AllocScale(IdentityScale)
                     ELSE IdentityScale]
    /\ UNCHANGED <<envVars, captured, aiVars, wbScale, appVars,
                   pageRendered, isDrawing, currentStroke, wbVars, exp>>

onDocumentLoadError ==
    /\ mode = "pdf"
    /\ docState = "loading"
    /\ docState' = "failed"
    /\ UNCHANGED <<auxVars, appVars, numPages, pageCanvasRefs,
                   pageRendered, pageVars, wbVars, exp>>

\* ------------------------------------------------ PDFLayer page rendering
\* the bitmap the page renderer draws for page p, and its size in CSS pixels
\* (the page's own aspect, not the estimate the annotation canvas uses)
PageBitmap(p) == [c \in Cells |-> IF p = 1 THEN "page 1" ELSE "page 2"]
PageSize == [width |-> 32, height |-> 6]

\* <Page> has rendered its canvas (canvas.react-pdf__Page__canvas) into the
\* wrapper of page p
PageRenderSuccess(p) ==
    /\ Mounted(p)
    /\ ~pageRendered[p]
    /\ pageRendered' = [pageRendered EXCEPT ![p] = TRUE]
    /\ UNCHANGED <<auxVars, appVars, docState, numPages, pageCanvasRefs,
                   pageVars, wbVars, exp>>

\* ------------------------------------------------------- snapshot capture
\* canvas.width / canvas.height of a canvas of CSS size sz
DeviceSize(sz) ==
    [width |-> (sz.width * devicePixelRatio) \div 100,
     height |-> (sz.height * devicePixelRatio) \div 100]

NoCapture == [kind |-> "none", size |-> DeviceSize([width |-> 0, height |-> 0]),
              pixels |-> BlankRaster]
\* the empty string
EmptyImage == [NoCapture EXCEPT !.kind = "empty"]
\* canvas.toDataURL('image/png')
DataURL(size, px) == [kind |-> "image", size |-> size, pixels |-> px]

\* ctx.drawImage(src, 0, 0[, width, height]) with standard composition
drawImage_replace(dst, src) == src

drawImage(dst, src) ==
    [c \in Cells |-> IF src[c] = Transparent THEN dst[c] ELSE src[c]]

\* the page whose wrapper container.querySelector('.pageWrapper') returns
FirstWrapper_last == numPages

FirstWrapper == 1

\* PDFLayer.captureCurrentPage
captureCurrentPage ==
    IF docState = "failed" THEN EmptyImage             \* no container ref
    ELSE IF docState # "loaded" \/ numPages = 0
    THEN EmptyImage                                     \* no page wrapper
    ELSE LET w == FirstWrapper
             \* the renderer's canvas, else the first canvas in the wrapper
             pdfCanvas == IF pageRendered[w]
                          THEN [size |-> DeviceSize(PageSize),
                                pixels |-> PageBitmap(w)]
                          ELSE [size |-> DeviceSize(CanvasSize),
                                pixels |-> raster[w]]
             base == drawImage(BlankRaster, pdfCanvas.pixels)
             \* the second canvas in the wrapper, when page 1 has a handle
             overlay == 1 \in pageCanvasRefs /\ pageRendered[w]
         IN DataURL(pdfCanvas.size,
                    IF overlay THEN drawImage(base, raster[w]) ELSE base)

\* App.getCapturedImage, called by handleSendMessage and handleCapture
CapturedImage ==
    IF mode = "pdf" /\ pdfFile # NoFile
    THEN captureCurrentPage
    ELSE DataURL(DeviceSize(CanvasSize), wbRaster)

getCapturedImage ==
    /\ captured' = CapturedImage
    /\ UNCHANGED <<envVars, scaleVars, aiVars, appVars, layerVars, pageVars,
                   wbVars, exp>>

\* ------------------------------------------------------ App: AI assistant
NoRequests == [r \in 1..MaxRequests |-> "none"]
InFlight == {r \in 1..MaxRequests : requests[r] # "none"}

\* the finally block of both handlers: setIsProcessing(false)
Finally(flag) == FALSE

\* the input (Enter key) and the camera button: disabled={isProcessing}
CanAsk == ~isProcessing /\ InFlight # 1..MaxRequests

\* the slot a new invocation is followed in
FreeSlot == CHOOSE r \in 1..MaxRequests :
                /\ requests[r] = "none"
                /\ \A q \in 1..MaxRequests : requests[q] = "none" => r <= q

\* handleSendMessage up to its first await (analyzeWithAzure)
handleSendMessage ==
    /\ CanAsk
    /\ isProcessing' = TRUE
    /\ captured' = CapturedImage
    /\ requests' = [requests EXCEPT ![FreeSlot] = "analyze"]
    /\ UNCHANGED <<envVars, scaleVars, hasContext, currentAudio, appVars,
                   layerVars, pageVars, wbVars, exp>>

\* handleCapture up to its first await; nothing happens for an empty image
handleCapture ==
    /\ CanAsk
    /\ captured' = CapturedImage
    /\ IF CapturedImage.kind = "empty"
       THEN UNCHANGED <<isProcessing, requests>>
       ELSE /\ isProcessing' = TRUE
            /\ requests' = [requests EXCEPT ![FreeSlot] = "analyze"]
    /\ UNCHANGED <<envVars, scaleVars, hasContext, currentAudio, appVars,
                   layerVars, pageVars, wbVars, exp>>

\* analyzeWithAzure settles: the history grows and synthesizeSpeech is
\* awaited, or the catch logs and the finally block runs
AnalysisArrives(r, ok) ==
    /\ requests[r] = "analyze"
    /\ IF ok
       THEN /\ requests' = [requests EXCEPT ![r] = "speech"]
            /\ hasContext' = TRUE
            /\ UNCHANGED isProcessing
       ELSE /\ requests' = [requests EXCEPT ![r] = "none"]
            /\ isProcessing' = Finally(isProcessing)
            /\ UNCHANGED hasContext
    /\ UNCHANGED <<envVars, captured, scaleVars, currentAudio, appVars,
                   layerVars, pageVars, wbVars, exp>>

\* synthesizeSpeech settles: with played, a new Audio has started playing;
\* otherwise speech is not configured, the service refused or play() was
\* rejected; the finally block runs
SpeechSettles(r, played) ==
    /\ requests[r] = "speech"
    /\ requests' = [requests EXCEPT ![r] = "none"]
    /\ currentAudio' = (played \/ currentAudio)
    /\ isProcessing' = Finally(isProcessing)
    /\ UNCHANGED <<envVars, captured, scaleVars, hasContext, appVars,
                   layerVars, pageVars, wbVars, exp>>

\* the stop button, rendered while isProcessing: stopAllProcessing pauses
\* and drops the audio; no request is aborted
handleStop ==
    /\ isProcessing
    /\ currentAudio' = FALSE
    /\ isProcessing' = FALSE
    /\ UNCHANGED <<envVars, captured, scaleVars, hasContext, requests,
                   appVars, layerVars, pageVars, wbVars, exp>>

\* the clear-context button, rendered while hasContext && !isProcessing
handleClearConversation ==
    /\ hasContext /\ ~isProcessing
    /\ hasContext' = FALSE
    /\ UNCHANGED <<envVars, captured, scaleVars, isProcessing, requests,
                   currentAudio, appVars, layerVars, pageVars, wbVars, exp>>

\* ------------------------------------------------------ PDFLayer.exportPdf
\* One invocation is followed from the click on Save to its outcome; pc is
\* the await it is suspended at.
NoExport ==
    [pc |-> "idle", i |-> 0, annotations |-> NoAnnotations,
     embedded |-> [p \in Pages |-> <<>>], detached |-> FALSE, refs |-> {},
     alerts |-> 0, downloads |-> 0]

ExportRunning == exp.pc \in {"read", "load", "pages", "save"}

\* catch (err) { console.error(...); alert(...) }
ExportCatch_savesPartial ==
    [exp EXCEPT !.pc = "failed", !.alerts = @ + 1, !.downloads = @ + 1]

ExportCatch_retry == [exp EXCEPT !.pc = "read", !.alerts = @ + 1]

ExportCatch == [exp EXCEPT !.pc = "failed", !.alerts = @ + 1]

\* handleSavePdf -> exportPdf up to its first await; the closure holds the
\* annotations prop of the render that created it
exportPdf ==
    /\ mode = "pdf"
    /\ pdfFile # NoFile
    /\ ~ExportRunning
    /\ exp' = [NoExport EXCEPT !.pc = "read", !.annotations = pdfAnnotations]
    /\ UNCHANGED <<auxVars, appVars, layerVars, pageVars, wbVars>>

\* await file.arrayBuffer()
ExportRead(ok) ==
    /\ exp.pc = "read"
    /\ exp' = IF ok THEN [exp EXCEPT !.pc = "load"] ELSE ExportCatch
    /\ UNCHANGED <<auxVars, appVars, layerVars, pageVars, wbVars>>

\* await PDFDocument.load(pdfBytes); pdfDoc.getPages()
ExportLoad(ok) ==
    /\ exp.pc = "load"
    /\ exp' = IF ok THEN [exp EXCEPT !.pc = "pages", !.i = 1] ELSE ExportCatch
    /\ UNCHANGED <<auxVars, appVars, layerVars, pageVars, wbVars>>

\* pageCanvasRefs.current.get(pageNumber) as the invocation sees it
ExportHandle(pageNumber) ==
    IF exp.detached THEN pageNumber \in exp.refs
    ELSE pageNumber \in pageCanvasRefs

\* canvasHandle && annotations[pageNumber]?.length > 0
ShouldEmbed_handleOnly(pageNumber) == ExportHandle(pageNumber)

ShouldEmbed(pageNumber) ==
    ExportHandle(pageNumber) /\ Len(exp.annotations[pageNumber]) > 0

\* one iteration of the page loop: getDataURL, fetch, embedPng, drawImage
ExportPage(ok) ==
    /\ exp.pc = "pages"
    /\ LET pageNumber == exp.i
           next == IF pageNumber >= pdfFile.pages THEN "save" ELSE "pages"
       IN IF ShouldEmbed(pageNumber)
          THEN \* an unmounted canvas gives the data URL '', which is no PNG
               IF ok /\ ~exp.detached
               THEN exp' = [exp EXCEPT !.pc = next, !.i = pageNumber + 1,
                              !.embedded[pageNumber] =
                                  Append(@, raster[pageNumber])]
               ELSE exp' = ExportCatch
          ELSE /\ ok
               /\ exp' = [exp EXCEPT !.pc = next, !.i = pageNumber + 1]
    /\ UNCHANGED <<auxVars, appVars, layerVars, pageVars, wbVars>>

\* await pdfDoc.save(), then the download link is clicked
ExportSave(ok) ==
    /\ exp.pc = "save"
    /\ exp' = IF ok THEN [exp EXCEPT !.pc = "done", !.downloads = @ + 1]
              ELSE ExportCatch
    /\ UNCHANGED <<auxVars, appVars, layerVars, pageVars, wbVars>>

\* ------------------------------------------------------------ specification
NoGesture == [points |-> <<>>, down |-> FALSE]

\* App as constructed: whiteboard mode, pen, white, no file
InitApp ==
    /\ mode = "whiteboard"
    /\ tool = "pen"
    /\ penColor = "white"
    /\ pdfFile = NoFile
    /\ pdfAnnotations = NoAnnotations
    /\ docState = "none"
    /\ numPages = 0
    /\ pageCanvasRefs = {}
    /\ pageRendered = [p \in Pages |-> FALSE]
    /\ strokes = [p \in Pages |-> <<>>]
    /\ isDrawing = [p \in Pages |-> FALSE]
    /\ currentStroke = [p \in Pages |-> <<>>]
    /\ raster = [p \in Pages |-> BlankRaster]
    /\ ctx = [p \in Pages |-> DefaultCtx]
    /\ wbIsDrawing = FALSE
    /\ wbLastPos = <<>>
    /\ wbRaster = BlankRaster
    /\ wbCtx = ToolEffect("pen", "white")
    /\ exp = NoExport
    /\ devicePixelRatio \in DevicePixelRatios
    /\ scale = [p \in Pages |-> IF p <= numPages
                                THEN AllocScale(IdentityScale)
                                ELSE IdentityScale]
    /\ wbScale = AllocScale(IdentityScale)
    /\ captured = NoCapture
    /\ isProcessing = FALSE
    /\ hasContext = FALSE
    /\ requests = NoRequests
    /\ currentAudio = FALSE

\* no document has been exported yet
NoDocument ==
    [saved |-> FALSE, annotations |-> NoAnnotations,
     embedded |-> [p \in Pages |-> <<>>]]

\* the document has not been hidden yet
NeverHidden ==
    [saved |-> FALSE, annotations |-> NoAnnotations,
     strokes |-> [p \in Pages |-> <<>>],
     raster |-> [p \in Pages |-> BlankRaster],
     isDrawing |-> [p \in Pages |-> FALSE]]

InitHist ==
    /\ gesture = [p \in Pages |-> NoGesture]
    /\ lastOp = "none"
    /\ loadFailed = FALSE
    /\ exported = NoDocument
    /\ hidden = NeverHidden

Init == InitApp /\ InitHist

\* history updates
Did(op) ==
    lastOp' = op /\ UNCHANGED <<gesture, loadFailed, exported, hidden>>
Untracked == UNCHANGED <<gesture, lastOp, loadFailed, exported, hidden>>
TrackSwitch ==
    /\ hidden' = IF /\ mode = "pdf"
                    /\ mode' = "whiteboard"
                    /\ docState = "loaded"
                 THEN [saved |-> TRUE, annotations |-> pdfAnnotations,
                       strokes |-> strokes, raster |-> raster,
                       isDrawing |-> isDrawing]
                 ELSE hidden
    /\ UNCHANGED <<gesture, lastOp, loadFailed, exported>>
TrackExport ==
    /\ exported' = IF exp.pc = "save" /\ exp'.pc = "done"
                   THEN [saved |-> TRUE, annotations |-> exp'.annotations,
                         embedded |-> exp'.embedded]
                   ELSE exported
    /\ UNCHANGED <<gesture, lastOp, loadFailed, hidden>>
TrackLoad ==
    /\ loadFailed' = IF pdfFile' # pdfFile THEN FALSE
                     ELSE loadFailed \/ docState' = "failed"
    /\ UNCHANGED <<gesture, lastOp, exported, hidden>>
PointerDown(p, e) ==
    /\ gesture' = [gesture EXCEPT
                      ![p] = [points |-> <<getCoordinates(e)>>, down |-> TRUE]]
    /\ UNCHANGED <<lastOp, loadFailed, exported, hidden>>
PointerMove(p, e) ==
    /\ gesture' = IF gesture[p].down
                  THEN [gesture EXCEPT
                          ![p].points = Append(@, getCoordinates(e))]
                  ELSE gesture
    /\ UNCHANGED <<lastOp, loadFailed, exported, hidden>>
PointerUp(p) ==
    /\ gesture' = [gesture EXCEPT ![p].down = FALSE]
    /\ UNCHANGED <<lastOp, loadFailed, exported, hidden>>

\* on a page the pointer goes down at TapPoint and moves once, to MovePoint,
\* before it goes up
OneMove(p) == Len(currentStroke[p]) <= 1

\* the application without export
Next ==
    \/ \E m \in {"whiteboard", "pdf"} : setMode(m) /\ Did("setMode")
    \/ \E t \in Tools : setTool(t) /\ Did("setTool")
    \/ \E type \in FileTypes, n \in Pages :
          handleFileChange(type, n) /\ Did("handleFileChange")
    \/ handleClear /\ Did("handleClear")
    \/ onDocumentLoadSuccess /\ Did("onDocumentLoadSuccess")
    \/ onDocumentLoadError /\ Did("onDocumentLoadError")
    \/ \E p \in Pages : startDrawing(p, TapPoint) /\ Did("startDrawing")
    \/ \E p \in Pages : OneMove(p) /\ draw(p, MovePoint) /\ Did("draw")
    \/ \E p \in Pages : stopDrawing(p) /\ Did("stopDrawing")
    \/ wbStartDrawing(TapPoint) /\ Did("wbStartDrawing")
    \/ wbDraw(MovePoint) /\ Did("wbDraw")
    \/ wbStopDrawing /\ Did("wbStopDrawing")

Spec == Init /\ [][Next]_vars

\* the PDF side with export: mode switches, file and document load, Clear,
\* pen gestures on the pages, and one export invocation at a time
NextExport ==
    \/ \E m \in {"whiteboard", "pdf"} : setMode(m) /\ Untracked
    \/ \E type \in FileTypes, n \in Pages :
          handleFileChange(type, n) /\ Untracked
    \/ handleClear /\ Untracked
    \/ onDocumentLoadSuccess /\ Untracked
    \/ onDocumentLoadError /\ Untracked
    \/ \E p \in Pages : startDrawing(p, TapPoint) /\ Untracked
    \/ \E p \in Pages : OneMove(p) /\ draw(p, MovePoint) /\ Untracked
    \/ \E p \in Pages : stopDrawing(p) /\ Untracked
    \/ exportPdf /\ Untracked
    \/ \E ok \in BOOLEAN : ExportRead(ok) /\ Untracked
    \/ \E ok \in BOOLEAN : ExportLoad(ok) /\ Untracked
    \/ \E ok \in BOOLEAN : ExportPage(ok) /\ Untracked
    \/ \E ok \in BOOLEAN : ExportSave(ok) /\ Untracked

SpecExport == Init /\ [][NextExport]_vars

\* one page surface under tool and colour changes: a one-page document is
\* loaded and shown; the pointer goes down anywhere and moves to MovePoint
InitSurface ==
    /\ mode = "pdf"
    /\ tool = "pen"
    /\ penColor = "white"
    /\ pdfFile = [pages |-> 1]
    /\ pdfAnnotations = NoAnnotations
    /\ docState = "loaded"
    /\ numPages = 1
    /\ pageCanvasRefs = {1}
    /\ pageRendered = [p \in Pages |-> FALSE]
    /\ strokes = [p \in Pages |-> <<>>]
    /\ isDrawing = [p \in Pages |-> FALSE]
    /\ currentStroke = [p \in Pages |-> <<>>]
    /\ raster = [p \in Pages |-> BlankRaster]
    /\ ctx = [p \in Pages |-> DefaultCtx]
    /\ wbIsDrawing = FALSE
    /\ wbLastPos = <<>>
    /\ wbRaster = BlankRaster
    /\ wbCtx = ToolEffect("pen", "white")
    /\ exp = NoExport
    /\ devicePixelRatio \in DevicePixelRatios
    /\ scale = [p \in Pages |-> IF p <= numPages
                                THEN AllocScale(IdentityScale)
                                ELSE IdentityScale]
    /\ wbScale = AllocScale(IdentityScale)
    /\ captured = NoCapture
    /\ isProcessing = FALSE
    /\ hasContext = FALSE
    /\ requests = NoRequests
    /\ currentAudio = FALSE
    /\ InitHist

NextSurface ==
    \/ \E t \in Tools : setTool(t) /\ Untracked
    \/ \E pc \in PenColors : setPenColor(pc) /\ Untracked
    \/ handleClear /\ Untracked
    \/ \E p \in Pages, e \in ClientPoints :
          startDrawing(p, e) /\ PointerDown(p, e)
    \/ \E p \in Pages : draw(p, MovePoint) /\ PointerMove(p, MovePoint)
    \/ \E p \in Pages : stopDrawing(p) /\ PointerUp(p)

SpecSurface == InitSurface /\ [][NextSurface]_vars

\* the same page surface, drawn on with the pen or the eraser while one
\* export invocation at a time runs
NextSnapshot ==
    \/ \E t \in Tools : setTool(t) /\ Untracked
    \/ \E p \in Pages : startDrawing(p, TapPoint) /\ Untracked
    \/ \E p \in Pages : OneMove(p) /\ draw(p, MovePoint) /\ Untracked
    \/ \E p \in Pages : stopDrawing(p) /\ Untracked
    \/ exportPdf /\ Untracked
    \/ \E ok \in BOOLEAN : ExportRead(ok) /\ Untracked
    \/ \E ok \in BOOLEAN : ExportLoad(ok) /\ Untracked
    \/ \E ok \in BOOLEAN : ExportPage(ok) /\ Untracked
    \/ \E ok \in BOOLEAN : ExportSave(ok) /\ Untracked

SpecSnapshot == InitSurface /\ [][NextSnapshot]_vars

\* the rasters of both kinds of surface: the one-page document is shown or
\* hidden, pages and whiteboard are drawn on, cleared, redrawn and resized
NextRaster ==
    \/ \E m \in {"whiteboard", "pdf"} : setMode(m) /\ Untracked
    \/ \E t \in Tools : setTool(t) /\ Untracked
    \/ handleClear /\ Untracked
    \/ onDocumentLoadSuccess /\ Untracked
    \/ \E p \in Pages : startDrawing(p, TapPoint) /\ Untracked
    \/ \E p \in Pages : OneMove(p) /\ draw(p, MovePoint) /\ Untracked
    \/ \E p \in Pages : stopDrawing(p) /\ Untracked
    \/ pageResize /\ Untracked
    \/ \E p \in Pages : pageClear(p) /\ Untracked
    \/ \E p \in Pages : pageRedraw(p) /\ Untracked
    \/ wbStartDrawing(TapPoint) /\ Untracked
    \/ wbDraw(MovePoint) /\ Untracked
    \/ wbStopDrawing /\ Untracked
    \/ wbResize /\ Untracked

SpecRaster == InitSurface /\ [][NextRaster]_vars

\* redrawCanvas as a function of the committed sequence: page 1 of the
\* one-page document holds any sequence of up to MaxStrokes strokes over the
\* sample points, with any recorded colour, width and tool, on a raster
\* filled with older paint, and is redrawn or reallocated
LocalPoints == {getCoordinates(e) : e \in ClientPoints}
RecordedWidths == {DefaultLineWidth, 2 * EraserWidth}
StalePaint == "stale"
SampleStrokes ==
    {Stroke(<<a, b>>, currentColor(pc), w, t) :
        a \in LocalPoints, b \in LocalPoints,
        pc \in PenColors, w \in RecordedWidths, t \in Tools}
SampleSequences ==
    UNION {[1..n -> SampleStrokes] : n \in 0..MaxStrokes}

InitReplay ==
    /\ mode = "pdf"
    /\ tool = "pen"
    /\ penColor = "white"
    /\ pdfFile = [pages |-> 1]
    /\ \E ss \in SampleSequences :
          /\ pdfAnnotations = [NoAnnotations EXCEPT ![1] = ss]
          /\ strokes = [NoAnnotations EXCEPT ![1] = ss]
    /\ docState = "loaded"
    /\ numPages = 1
    /\ pageCanvasRefs = {1}
    /\ pageRendered = [p \in Pages |-> FALSE]
    /\ isDrawing = [p \in Pages |-> FALSE]
    /\ currentStroke = [p \in Pages |-> <<>>]
    /\ raster = [p \in Pages |->
                    IF p = 1 THEN [c \in Cells |-> StalePaint]
                    ELSE BlankRaster]
    /\ ctx = [p \in Pages |-> DefaultCtx]
    /\ wbIsDrawing = FALSE
    /\ wbLastPos = <<>>
    /\ wbRaster = BlankRaster
    /\ wbCtx = ToolEffect("pen", "white")
    /\ exp = NoExport
    /\ devicePixelRatio \in DevicePixelRatios
    /\ scale = [p \in Pages |-> IF p <= numPages
                                THEN AllocScale(IdentityScale)
                                ELSE IdentityScale]
    /\ wbScale = AllocScale(IdentityScale)
    /\ captured = NoCapture
    /\ isProcessing = FALSE
    /\ hasContext = FALSE
    /\ requests = NoRequests
    /\ currentAudio = FALSE
    /\ InitHist

NextReplay ==
    \/ \E p \in Pages : pageRedraw(p) /\ Untracked
    \/ pageResize /\ Untracked

SpecReplay == InitReplay /\ [][NextReplay]_vars

\* the page surfaces of a two-page document that is loaded and shown; each
\* page takes the two-point gesture, also both at the same time
InitPages ==
    /\ mode = "pdf"
    /\ tool = "pen"
    /\ penColor = "white"
    /\ pdfFile = [pages |-> 2]
    /\ pdfAnnotations = NoAnnotations
    /\ docState = "loaded"
    /\ numPages = 2
    /\ pageCanvasRefs = {1, 2}
    /\ pageRendered = [p \in Pages |-> FALSE]
    /\ strokes = [p \in Pages |-> <<>>]
    /\ isDrawing = [p \in Pages |-> FALSE]
    /\ currentStroke = [p \in Pages |-> <<>>]
    /\ raster = [p \in Pages |-> BlankRaster]
    /\ ctx = [p \in Pages |-> DefaultCtx]
    /\ wbIsDrawing = FALSE
    /\ wbLastPos = <<>>
    /\ wbRaster = BlankRaster
    /\ wbCtx = ToolEffect("pen", "white")
    /\ exp = NoExport
    /\ devicePixelRatio \in DevicePixelRatios
    /\ scale = [p \in Pages |-> IF p <= numPages
                                THEN AllocScale(IdentityScale)
                                ELSE IdentityScale]
    /\ wbScale = AllocScale(IdentityScale)
    /\ captured = NoCapture
    /\ isProcessing = FALSE
    /\ hasContext = FALSE
    /\ requests = NoRequests
    /\ currentAudio = FALSE
    /\ InitHist

NextPages ==
    \/ \E t \in Tools : setTool(t) /\ Did("setTool")
    \/ handleClear /\ Did("handleClear")
    \/ \E p \in Pages : startDrawing(p, TapPoint) /\ Did("startDrawing")
    \/ \E p \in Pages : OneMove(p) /\ draw(p, MovePoint) /\ Did("draw")
    \/ \E p \in Pages : stopDrawing(p) /\ Did("stopDrawing")

SpecPages == InitPages /\ [][NextPages]_vars

\* document load: a file is chosen, its load succeeds or fails, the layer is
\* hidden and shown again, and the pages shown take gestures
NextLoad ==
    \/ \E m \in {"whiteboard", "pdf"} : setMode(m) /\ TrackLoad
    \/ \E type \in FileTypes, n \in Pages :
          handleFileChange(type, n) /\ TrackLoad
    \/ handleClear /\ TrackLoad
    \/ onDocumentLoadSuccess /\ TrackLoad
    \/ onDocumentLoadError /\ TrackLoad
    \/ \E p \in Pages : startDrawing(p, TapPoint) /\ TrackLoad
    \/ \E p \in Pages : OneMove(p) /\ draw(p, MovePoint) /\ TrackLoad
    \/ \E p \in Pages : stopDrawing(p) /\ TrackLoad

SpecLoad == Init /\ [][NextLoad]_vars

\* snapshot capture: documents are loaded, rendered page by page, hidden and
\* shown again; pages and whiteboard are drawn on; snapshots are taken
NextCapture ==
    \/ \E m \in {"whiteboard", "pdf"} : setMode(m) /\ Untracked
    \/ \E type \in FileTypes, n \in Pages :
          handleFileChange(type, n) /\ Untracked
    \/ onDocumentLoadSuccess /\ Untracked
    \/ onDocumentLoadError /\ Untracked
    \/ \E p \in Pages : PageRenderSuccess(p) /\ Untracked
    \/ \E p \in Pages : startDrawing(p, TapPoint) /\ Untracked
    \/ \E p \in Pages : OneMove(p) /\ draw(p, MovePoint) /\ Untracked
    \/ \E p \in Pages : stopDrawing(p) /\ Untracked
    \/ wbStartDrawing(TapPoint) /\ Untracked
    \/ wbDraw(MovePoint) /\ Untracked
    \/ wbStopDrawing /\ Untracked
    \/ getCapturedImage /\ Untracked

SpecCapture == Init /\ [][NextCapture]_vars

\* one resumption of a suspended export invocation
ExportStep ==
    \E ok \in BOOLEAN :
        ExportRead(ok) \/ ExportLoad(ok) \/ ExportPage(ok) \/ ExportSave(ok)

\* export invocations on the one-page document while the page is drawn on
\* and the document is hidden and shown again
NextOutcome ==
    \/ \E m \in {"whiteboard", "pdf"} : setMode(m) /\ Untracked
    \/ onDocumentLoadSuccess /\ Untracked
    \/ \E p \in Pages : startDrawing(p, TapPoint) /\ Untracked
    \/ \E p \in Pages : OneMove(p) /\ draw(p, MovePoint) /\ Untracked
    \/ \E p \in Pages : stopDrawing(p) /\ Untracked
    \/ exportPdf /\ Untracked
    \/ \E ok \in BOOLEAN : ExportRead(ok) /\ Untracked
    \/ \E ok \in BOOLEAN : ExportLoad(ok) /\ Untracked
    \/ \E ok \in BOOLEAN : ExportPage(ok) /\ Untracked
    \/ \E ok \in BOOLEAN : ExportSave(ok) /\ Untracked

\* every promise exportPdf awaits settles (a local file read, pdf-lib
\* parsing and saving, the fetch of a data URL), and the event loop resumes
\* the invocation after each of them
SpecOutcome ==
    InitSurface /\ [][NextOutcome]_vars /\ WF_vars(ExportStep /\ Untracked)

\* repeated exports of the one-page document while its page is drawn on
NextRepeat ==
    \/ \E t \in Tools : setTool(t) /\ Untracked
    \/ \E p \in Pages : startDrawing(p, TapPoint) /\ Untracked
    \/ \E p \in Pages : OneMove(p) /\ draw(p, MovePoint) /\ Untracked
    \/ \E p \in Pages : stopDrawing(p) /\ Untracked
    \/ exportPdf /\ Untracked
    \/ \E ok \in BOOLEAN : ExportRead(ok) /\ Untracked
    \/ \E ok \in BOOLEAN : ExportLoad(ok) /\ Untracked
    \/ \E ok \in BOOLEAN : ExportPage(ok) /\ Untracked
    \/ \E ok \in BOOLEAN : ExportSave(ok) /\ TrackExport

SpecRepeat == InitSurface /\ [][NextRepeat]_vars

\* the one-page document is hidden by a switch to whiteboard mode and shown
\* again, with gestures and Clear on its page in between
NextSwitch ==
    \/ \E m \in {"whiteboard", "pdf"} : setMode(m) /\ TrackSwitch
    \/ onDocumentLoadSuccess /\ Untracked
    \/ handleClear /\ Untracked
    \/ \E p \in Pages : startDrawing(p, TapPoint) /\ Untracked
    \/ \E p \in Pages : OneMove(p) /\ draw(p, MovePoint) /\ Untracked
    \/ \E p \in Pages : stopDrawing(p) /\ Untracked

SpecSwitch == InitSurface /\ [][NextSwitch]_vars

\* the whiteboard behind the one-page document: both surfaces are drawn on,
\* the document is cleared and exported, and the mode is switched
NextHidden ==
    \/ \E m \in {"whiteboard", "pdf"} : setMode(m) /\ Did("setMode")
    \/ onDocumentLoadSuccess /\ Did("onDocumentLoadSuccess")
    \/ handleClear /\ Did("handleClear")
    \/ \E p \in Pages : startDrawing(p, TapPoint) /\ Did("startDrawing")
    \/ \E p \in Pages : OneMove(p) /\ draw(p, MovePoint) /\ Did("draw")
    \/ \E p \in Pages : stopDrawing(p) /\ Did("stopDrawing")
    \/ wbStartDrawing(TapPoint) /\ Did("wbStartDrawing")
    \/ wbDraw(MovePoint) /\ Did("wbDraw")
    \/ wbStopDrawing /\ Did("wbStopDrawing")
    \/ exportPdf /\ Did("exportPdf")
    \/ ExportStep /\ Did("exportPdf")

SpecHidden == InitSurface /\ [][NextHidden]_vars

\* allocations and resizes of both kinds of canvas: the one-page document is
\* hidden and shown again, the page canvases and the whiteboard canvas are
\* resized, and both surfaces are drawn on
NextScale ==
    \/ \E m \in {"whiteboard", "pdf"} : setMode(m) /\ Did("setMode")
    \/ onDocumentLoadSuccess /\ Did("onDocumentLoadSuccess")
    \/ pageResize /\ Did("pageResize")
    \/ wbResize /\ Did("wbResize")
    \/ \E p \in Pages, e \in ClientPoints :
          startDrawing(p, e) /\ Did("startDrawing")
    \/ \E p \in Pages : OneMove(p) /\ draw(p, MovePoint) /\ Did("draw")
    \/ \E p \in Pages : stopDrawing(p) /\ Did("stopDrawing")
    \/ \E e \in ClientPoints : wbStartDrawing(e) /\ Did("wbStartDrawing")
    \/ wbDraw(MovePoint) /\ Did("wbDraw")
    \/ wbStopDrawing /\ Did("wbStopDrawing")

SpecScale == InitSurface /\ [][NextScale]_vars

\* the assistant over the whiteboard: the board is drawn on, questions are
\* sent, snapshots are analysed, responses arrive and Stop is pressed
NextAssistant ==
    \/ \E t \in Tools : setTool(t) /\ Did("setTool")
    \/ wbStartDrawing(TapPoint) /\ Did("wbStartDrawing")
    \/ wbDraw(MovePoint) /\ Did("wbDraw")
    \/ wbStopDrawing /\ Did("wbStopDrawing")
    \/ handleSendMessage /\ Did("handleSendMessage")
    \/ handleCapture /\ Did("handleCapture")
    \/ \E r \in 1..MaxRequests, ok \in BOOLEAN :
          AnalysisArrives(r, ok) /\ Did("AnalysisArrives")
    \/ \E r \in 1..MaxRequests, played \in BOOLEAN :
          SpeechSettles(r, played) /\ Did("SpeechSettles")
    \/ handleStop /\ Did("handleStop")
    \/ handleClearConversation /\ Did("handleClearConversation")

SpecAssistant == Init /\ [][NextAssistant]_vars

\* ================================================================== claims
LastStroke(p) == strokes[p][Len(strokes[p])]

\* C1: a gesture of n >= 2 points (pointer-down, moves, pointer-up) adds
\* exactly one stroke to the page's committed sequence, and that last stroke
\* holds the points handed over, in the order they were handed over.
C1_GestureCommitsOneStroke ==
    [][\A p \in Pages :
        (stopDrawing(p) /\ gesture[p].down /\ Len(gesture[p].points) >= 2)
        => /\ Len(strokes'[p]) = Len(strokes[p]) + 1
           /\ strokes'[p][Len(strokes'[p])].points = gesture[p].points]_vars

\* a two-point gesture over two different points has ended and is the last
\* committed stroke
C1_Witness ==
    \E p \in Pages :
        /\ ~gesture[p].down
        /\ Len(gesture[p].points) >= 2
        /\ gesture[p].points[1] # gesture[p].points[2]
        /\ strokes[p] # <<>>
        /\ LastStroke(p).points = gesture[p].points

\* C2: a gesture that ends with fewer than 2 points (a tap) adds no stroke,
\* leaves the annotation store as it is and raises no error.
C2_TapCommitsNothing ==
    [][\A p \in Pages :
        (stopDrawing(p) /\ gesture[p].down /\ Len(gesture[p].points) < 2)
        => /\ strokes'[p] = strokes[p]
           /\ pdfAnnotations' = pdfAnnotations
           /\ exp'.alerts = exp.alerts]_vars

\* a tap has ended on a page
C2_Witness ==
    \E p \in Pages :
        /\ ~gesture[p].down
        /\ Len(gesture[p].points) = 1
        /\ ~isDrawing[p]

\* C3: a controller holds in-progress points exactly while its pointer is
\* down (a pointer-down with no pointer-up or leave after it), and every
\* pointer-up leaves it idle with no in-progress points.
C3_InProgressIffPointerDown ==
    /\ [](\A p \in Pages : (currentStroke[p] # <<>>) <=> gesture[p].down)
    /\ [][\A p \in Pages :
            stopDrawing(p) => (~isDrawing'[p] /\ currentStroke'[p] = <<>>)]_vars

\* the pointer went down and up again: the controller is idle and empty
C3_Witness ==
    \E p \in Pages :
        /\ gesture[p].points # <<>>
        /\ ~gesture[p].down
        /\ ~isDrawing[p]
        /\ currentStroke[p] = <<>>

\* C4: a pointer-down on a controller that is already capturing changes
\* neither the in-progress points, nor the committed sequence, nor the raster.
C4_BeginWhileCapturingIsNoOp ==
    [][\A p \in Pages, e \in ClientPoints :
        (startDrawing(p, e) /\ isDrawing[p])
        => /\ currentStroke'[p] = currentStroke[p]
           /\ strokes'[p] = strokes[p]
           /\ raster'[p] = raster[p]]_vars

\* C5: a pointer-move on a controller that is not capturing records no
\* point, paints nothing and leaves the committed sequence alone (page canvas
\* and whiteboard alike); on a capturing page controller it appends exactly
\* the given point to the in-progress points.
C5_ExtendOnlyWhileCapturing ==
    [][/\ \A p \in Pages, e \in ClientPoints :
            draw(p, e) =>
                IF isDrawing[p]
                THEN /\ currentStroke'[p] =
                            Append(currentStroke[p], getCoordinates(e))
                     /\ strokes' = strokes
                     /\ pdfAnnotations' = pdfAnnotations
                ELSE UNCHANGED <<currentStroke, raster, strokes,
                                 pdfAnnotations>>
       /\ \A e \in ClientPoints :
            (wbDraw(e) /\ ~wbIsDrawing)
            => UNCHANGED <<wbRaster, wbLastPos, pdfAnnotations>>]_vars

\* a pointer-move was delivered to a page while no page was capturing
C5_Witness ==
    /\ lastOp = "draw"
    /\ \A p \in Pages : ~isDrawing[p] /\ currentStroke[p] = <<>>

\* C6: committing on page p replaces the store's sequence of p and leaves
\* the stored sequence of every other page as it was.
C6_StoreSetIsPageScoped ==
    [][\A p \in Pages :
        stopDrawing(p)
        => \A q \in Pages \ {p} : pdfAnnotations'[q] = pdfAnnotations[q]]_vars

\* a commit has just happened and both pages hold strokes
C6_Witness ==
    /\ lastOp = "stopDrawing"
    /\ \A p \in Pages : pdfAnnotations[p] # <<>>

\* C7: the store is empty right after a PDF file is loaded and right after
\* Clear in PDF mode; Clear in whiteboard mode blanks the whiteboard raster
\* and leaves the store unchanged.
C7_StoreLifecycle ==
    [][/\ (lastOp' = "handleFileChange" /\ pdfFile' # pdfFile)
            => pdfAnnotations' = NoAnnotations
       /\ (lastOp' = "handleClear" /\ mode = "pdf")
            => pdfAnnotations' = NoAnnotations
       /\ (lastOp' = "handleClear" /\ mode = "whiteboard")
            => (wbRaster' = ClearRect(wbRaster) /\ raster' = raster
                /\ pdfAnnotations' = pdfAnnotations)
      ]_vars

\* Clear ran in whiteboard mode while the store held strokes
C7_Witness ==
    /\ lastOp = "handleClear"
    /\ mode = "whiteboard"
    /\ wbRaster = BlankRaster
    /\ pdfAnnotations # NoAnnotations

\* C8: in an export that succeeds, every page whose stroke sequence was
\* non-empty in the store when the export was invoked carries its annotation
\* raster in the output document.
C8_AnnotatedPagesEmbedded ==
    exp.pc = "done"
    => \A p \in 1..pdfFile.pages :
          Len(exp.annotations[p]) > 0 => exp.embedded[p] # <<>>

\* C9: a page whose stroke sequence is empty or absent in the store the
\* export works from gets no image embedded.
C9_UnannotatedPagesUntouched ==
    \A p \in Pages : exp.embedded[p] # <<>> => Len(exp.annotations[p]) > 0

\* a finished export of a two-page document: one page embedded, the other,
\* without strokes, left alone
C9_Witness ==
    /\ exp.pc = "done"
    /\ exp.downloads = 1
    /\ \E p, q \in 1..pdfFile.pages :
          /\ exp.embedded[p] # <<>>
          /\ exp.annotations[q] = <<>>
          /\ exp.embedded[q] = <<>>

\* C10: an export that fails hands no document to the download sink, raises
\* exactly one error message, and the failing step leaves the source file,
\* the annotation store and the page controllers as they were.
C10_ExportAllOrNothing ==
    /\ [](exp.pc = "failed" => (exp.downloads = 0 /\ exp.alerts = 1))
    /\ [](exp.downloads > 0 => (exp.pc = "done" /\ exp.alerts = 0))
    /\ [][(exp'.pc = "failed" /\ exp.pc # "failed")
            => UNCHANGED <<pdfFile, pdfAnnotations, strokes, isDrawing,
                           currentStroke, raster>>]_vars

\* an export failed after a page had already been embedded
C10_Witness ==
    /\ exp.pc = "failed"
    /\ \E p \in Pages : exp.embedded[p] # <<>>

\* C11: an export shows the annotations as they were when it was invoked: a
\* page embedded while it holds strokes committed after the invocation (and
\* no gesture is in progress on it) is embedded as the replay of the
\* sequence the store held for it at invocation.
C11_ExportSeesInvocationSnapshot ==
    [][\A p \in Pages :
        (/\ Len(exp'.embedded[p]) > Len(exp.embedded[p])
         /\ ~isDrawing[p]
         /\ Len(strokes[p]) > Len(exp.annotations[p]))
        => exp'.embedded[p][Len(exp'.embedded[p])]
              = ReplayStrokes(BlankRaster, exp.annotations[p])]_vars

\* C12: a resize of a surface's raster is followed at once by a full redraw:
\* after a page canvas is resized its raster is the replay of its committed
\* strokes, and after the whiteboard canvas is resized every cell that
\* carried paint before still carries it.
C12_ResizeKeepsAnnotations ==
    [][/\ pageResize
            => \A p \in Pages :
                  Mounted(p)
                  => raster'[p] = ReplayStrokes(BlankRaster, strokes'[p])
       /\ wbResize
            => \A c \in Cells :
                  wbRaster[c] # Transparent => wbRaster'[c] = wbRaster[c]]_vars

\* C13: after clear() on a surface, from any state, the surface's committed
\* sequence is empty and its raster equals that of a freshly allocated
\* surface (page canvas: the handle's clear; whiteboard: Clear in whiteboard
\* mode, which calls the canvas' clear).
C13_ClearGivesFreshRaster ==
    [][/\ \A p \in Pages :
            pageClear(p) => (strokes'[p] = <<>> /\ raster'[p] = BlankRaster)
       /\ (handleClear /\ mode = "whiteboard")
            => wbRaster' = BlankRaster]_vars

\* C14: a full redraw is idempotent on the raster, and its result depends
\* only on the committed sequence: after redraw() the raster is the replay of
\* the committed strokes on a blank raster whatever it held before, and a
\* second redraw() right after would leave it as it is.
C14_RedrawIdempotent ==
    [][\A p \in Pages :
        pageRedraw(p)
        => /\ raster'[p] = ReplayStrokes(BlankRaster, strokes[p])
           /\ redrawCanvas(raster'[p], strokes[p]) = raster'[p]]_vars

\* cell c lies under stroke s as the replay paints it
CoveredByStroke(c, s) ==
    \E i \in 1..(Len(s.points) - 1) :
        Covered(c, s.points[i], s.points[i + 1],
                IF s.tool = "eraser" THEN EraserWidth ELSE s.lineWidth)

\* C15: after a full replay, wherever an eraser stroke of the sequence lies
\* over an earlier pen stroke and no later pen stroke lies over both, the
\* raster is transparent, whatever colour and width the eraser stroke
\* recorded.
C15_EraserCutsPenOnReplay ==
    [][\A p \in Pages :
        pageRedraw(p)
        => \A i, j \in 1..Len(strokes[p]), c \in Cells :
              (/\ i < j
               /\ strokes[p][i].tool = "pen"
               /\ strokes[p][j].tool = "eraser"
               /\ CoveredByStroke(c, strokes[p][i])
               /\ CoveredByStroke(c, strokes[p][j])
               /\ \A k \in (j + 1)..Len(strokes[p]) :
                     strokes[p][k].tool = "pen"
                     => ~CoveredByStroke(c, strokes[p][k]))
              => raster'[p][c] = Transparent]_vars

\* a pen stroke followed by an eraser stroke that recorded another width
\* than the eraser's own was replayed over older paint, and a cell under
\* both came out transparent
C15_Witness ==
    \E p \in Pages, c \in Cells :
        /\ Len(strokes[p]) = 2
        /\ strokes[p][1].tool = "pen"
        /\ strokes[p][2].tool = "eraser"
        /\ strokes[p][2].lineWidth # EraserWidth
        /\ CoveredByStroke(c, strokes[p][1])
        /\ CoveredByStroke(c, strokes[p][2])
        /\ 100 * c.x > CanvasSize.width * devicePixelRatio
        /\ raster[p][c] = Transparent

\* a snapshot is taken of the loaded document in PDF mode
CapturesDocument ==
    /\ getCapturedImage
    /\ mode = "pdf"
    /\ pdfFile # NoFile
    /\ docState = "loaded"

\* C16: the snapshot of a rendered page has the size of the page's bitmap and
\* shows the bitmap with the annotation raster painted over it: annotation
\* paint where there is some, the page elsewhere; with an empty annotation
\* raster it is the page's bitmap exactly.
C16_SnapshotIsBaseUnderAnnotation ==
    [][(CapturesDocument /\ pageRendered[1])
        => /\ captured'.kind = "image"
           /\ captured'.size = DeviceSize(PageSize)
           /\ \A c \in Cells :
                 captured'.pixels[c] =
                    IF raster[1][c] # Transparent THEN raster[1][c]
                    ELSE PageBitmap(1)[c]
           /\ raster[1] = BlankRaster
                 => captured'.pixels = PageBitmap(1)]_vars

\* a snapshot shows the page in one cell and pen paint in another
C16_Witness ==
    /\ captured.kind = "image"
    /\ captured.size = DeviceSize(PageSize)
    /\ \E c, d \in Cells :
          /\ captured.pixels[c] = PageBitmap(1)[c]
          /\ captured.pixels[d] = currentColor("white")

C18_ControllersAreIndependent ==
    [][\A p \in Pages :
        (\/ startDrawing(p, TapPoint)
         \/ draw(p, MovePoint)
         \/ stopDrawing(p))
        => \A q \in Pages \ {p} :
              /\ currentStroke'[q] = currentStroke[q]
              /\ strokes'[q] = strokes[q]
              /\ raster'[q] = raster[q]]_vars

\* one page has just committed a stroke while the other page, still
\* capturing, keeps its two captured points
C18_Witness ==
    /\ lastOp = "stopDrawing"
    /\ \E p \in Pages, q \in Pages :
          /\ p # q
          /\ strokes[p] # <<>>
          /\ ~isDrawing[p]
          /\ isDrawing[q]
          /\ Len(currentStroke[q]) = 2

\* C19: once the renderer has reported a load error for the document, no
\* page surface is there to take pointer input or commit a stroke, and this
\* stays so until another file is loaded.
C19_LoadErrorDisablesAnnotation ==
    loadFailed => \A p \in Pages : ~Mounted(p)

\* C20: a snapshot taken in PDF mode while a required element is missing (no
\* page container, no page wrapper, no page canvas from the renderer) is the
\* empty result, and taking it changes no stroke state.
C20_MissingElementsGiveEmptyResult ==
    [][(/\ getCapturedImage
        /\ mode = "pdf"
        /\ pdfFile # NoFile
        /\ (docState # "loaded" \/ ~pageRendered[1]))
        => /\ captured'.kind = "empty"
           /\ UNCHANGED <<pdfAnnotations, strokes, currentStroke,
                          isDrawing>>]_vars

\* C21: every export invocation ends, either with the document handed to the
\* download sink once or with one error message, never with both and with
\* neither before it ends; after a failure the export state moves again only
\* when export is triggered again.
C21_ExportEndsInOneOutcome ==
    /\ ExportRunning ~> exp.pc \in {"done", "failed"}
    /\ [](ExportRunning => (exp.downloads = 0 /\ exp.alerts = 0))
    /\ [](exp.pc \in {"done", "failed"} => exp.downloads + exp.alerts = 1)
    /\ [](exp.pc = "done" <=> exp.downloads = 1)
    /\ [][(exp.pc = "failed" /\ exp' # exp) => exportPdf]_vars

\* an invocation on the shown document has ended with the download of a
\* document whose page 1 carries an overlay
C21_Witness ==
    /\ exp.pc = "done"
    /\ exp.downloads = 1
    /\ exp.alerts = 0
    /\ exp.embedded[1] # <<>>
    /\ mode = "pdf"

\* C22: under pointer gestures, Clear, file load and mode switches, every
\* mounted page controller holds the sequence the annotation store holds for
\* its page (the empty one if the store has none), and a commit hands the
\* store the prior strokes of the page followed by the new stroke.
C22_ControllerMatchesStore ==
    /\ [](\A p \in Pages : Mounted(p) => strokes[p] = pdfAnnotations[p])
    /\ [][\A p \in Pages :
            (stopDrawing(p) /\ isDrawing[p] /\ ShouldCommit(currentStroke[p]))
            => /\ Len(pdfAnnotations'[p]) = Len(strokes[p]) + 1
               /\ SubSeq(pdfAnnotations'[p], 1, Len(strokes[p])) = strokes[p]
               /\ pdfAnnotations'[p][Len(strokes[p]) + 1].points
                      = currentStroke[p]]_vars

\* a mounted page has committed a second stroke after its first and holds
\* what the store holds for it
C22_Witness ==
    /\ mode = "pdf"
    /\ \E p \in Pages :
          /\ Mounted(p)
          /\ Len(strokes[p]) = 2
          /\ strokes[p] = pdfAnnotations[p]
          /\ ~isDrawing[p]

\* C23: a full redraw leaves the raster cleared and then painted with every
\* committed stroke, in sequence order, each with the tool, colour and width
\* recorded in the stroke; the tool and colour selected at the time of the
\* redraw play no part in the result.
C23_RedrawUsesRecordedAttributes ==
    [][\A p \in Pages :
        pageRedraw(p)
        => \E replay \in {ReplayStrokes(BlankRaster, strokes[p])} :
              /\ raster'[p] = replay
              /\ \A c \in Cells :
                    replay[c] # Transparent
                    => \E i \in 1..Len(strokes[p]) :
                          /\ strokes[p][i].tool = "pen"
                          /\ replay[c] = strokes[p][i].color]_vars

\* what a paint with tool t, colour color and width lineWidth leaves in a
\* cell it covers, and how wide it is
PaintOf(t, color) == IF t = "eraser" THEN Transparent ELSE color
WidthOf(t, lineWidth) == IF t = "eraser" THEN EraserWidth ELSE lineWidth

\* C24: on a page, a segment painted while drawing and a stroke painted by
\* the replay are painted alike: with the eraser, the cells within width 20
\* of the path are cut out to transparent and the context is in
\* destination-out mode, whatever width and colour are configured or
\* recorded; with the pen, the cells within the pen's own width get the
\* pen's own colour in source-over mode; no other cell changes.
C24_EraserIsWidth20CutOut ==
    [][\A p \in Pages :
        /\ (draw(p, MovePoint) /\ isDrawing[p] /\ currentStroke[p] # <<>>)
           => LET prev == currentStroke[p][Len(currentStroke[p])]
                  w == WidthOf(tool, DefaultLineWidth)
              IN /\ ctx'[p].lineWidth = w
                 /\ ctx'[p].gco = IF tool = "eraser" THEN "destination-out"
                                  ELSE "source-over"
                 /\ \A c \in Cells :
                       raster'[p][c] =
                          IF Covered(c, prev, getCoordinates(MovePoint), w)
                          THEN PaintOf(tool, currentColor(penColor))
                          ELSE raster[p][c]
        /\ (stopDrawing(p) /\ isDrawing[p] /\ ShouldCommit(currentStroke[p]))
           => LET s == strokes'[p][Len(strokes'[p])]
                  under == redrawCanvas(raster[p], strokes[p])
              IN \A c \in Cells :
                    raster'[p][c] =
                       IF \E i \in 1..(Len(s.points) - 1) :
                             Covered(c, s.points[i], s.points[i + 1],
                                     WidthOf(s.tool, s.lineWidth))
                       THEN PaintOf(s.tool, s.color)
                       ELSE under[c]]_vars

\* an eraser stroke that recorded the pen's width and colour was committed
\* and replayed: a cell farther from its path than the recorded width, but
\* within width 20, was cut out of the pen paint below
C24_Witness ==
    \E p \in Pages, c \in Cells :
        /\ Len(strokes[p]) = 2
        /\ ~isDrawing[p]
        /\ strokes[p][1].tool = "pen"
        /\ strokes[p][2].tool = "eraser"
        /\ strokes[p][2].lineWidth = DefaultLineWidth
        /\ CoveredByStroke(c, strokes[p][1])
        /\ ~Covered(c, strokes[p][2].points[1], strokes[p][2].points[2],
                    strokes[p][2].lineWidth)
        /\ raster[p][c] = Transparent

\* C25: on the whiteboard, under tool changes and resizes of the raster, a
\* segment painted while the eraser is selected cuts the cells within width
\* 20 of it out to transparent, and a segment painted while the pen is
\* selected gives the cells within the pen's width the selected colour; no
\* other cell changes.
C25_WhiteboardPaintFollowsTool ==
    [][(wbDraw(MovePoint) /\ wbIsDrawing /\ wbLastPos # <<>>)
        => /\ wbCtx.gco = IF tool = "eraser" THEN "destination-out"
                          ELSE "source-over"
           /\ \A c \in Cells :
                 wbRaster'[c] =
                    IF Covered(c, wbLastPos[1], getCoordinates(MovePoint),
                               WidthOf(tool, WbLineWidth))
                    THEN PaintOf(tool, currentColor(penColor))
                    ELSE wbRaster[c]]_vars

\* sequence t is sequence s with one stroke appended
AppendsOne(s, t) ==
    /\ Len(t) = Len(s) + 1
    /\ SubSeq(t, 1, Len(s)) = s

\* C26: the committed sequence of a mounted page controller, and the
\* sequence the store holds for a page, change only by getting one stroke
\* appended or by becoming empty; the strokes already in a sequence keep
\* their points, colour, width and tool, and pointer-down and pointer-move
\* on the page change neither sequence.
C26_CommittedStrokesImmutable ==
    [][\A p \in Pages :
        /\ (Mounted(p) /\ strokes'[p] # strokes[p])
           => (strokes'[p] = <<>> \/ AppendsOne(strokes[p], strokes'[p]))
        /\ pdfAnnotations'[p] # pdfAnnotations[p]
           => \/ pdfAnnotations'[p] = <<>>
              \/ AppendsOne(pdfAnnotations[p], pdfAnnotations'[p])
        /\ (\E e \in ClientPoints : startDrawing(p, e) \/ draw(p, e))
           => /\ strokes'[p] = strokes[p]
              /\ pdfAnnotations'[p] = pdfAnnotations[p]]_vars

\* a page that holds one committed stroke, the same as the store, has
\* captured two points of a further gesture while another tool is selected
C26_Witness ==
    \E p \in Pages :
        /\ Len(strokes[p]) = 1
        /\ pdfAnnotations[p] = strokes[p]
        /\ isDrawing[p]
        /\ Len(currentStroke[p]) = 2
        /\ gesture[p].down
        /\ strokes[p][1].tool # tool

\* C27: while a mounted page controller is not capturing, its raster is the
\* replay of its committed sequence on a blank raster: nothing painted by a
\* gesture that was dropped, restarted or cleared is left on it.
C27_IdleRasterIsReplay ==
    \A p \in Pages :
        (Mounted(p) /\ ~isDrawing[p])
        => raster[p] = ReplayStrokes(BlankRaster, strokes[p])

\* C28: the stroke a gesture commits records the tool, colour and width its
\* segments were painted with while it was drawn, also when the tool or the
\* colour is changed during the gesture: the context the replay sets for the
\* stroke has the stroke style and line width of the context that painted
\* the gesture's last segment.
C28_CommitRecordsPaintedAttributes ==
    [][\A p \in Pages :
        (stopDrawing(p) /\ isDrawing[p] /\ ShouldCommit(currentStroke[p]))
        => LET s == strokes'[p][Len(strokes'[p])]
               replayed == PaintCtx(s.tool, s.color, s.lineWidth)
           IN /\ replayed.strokeStyle = ctx[p].strokeStyle
              /\ replayed.lineWidth = ctx[p].lineWidth]_vars

\* C29: the raster export embeds for a page shows committed strokes only:
\* when the page is read while a gesture on it has painted segments that
\* are not committed yet, the embedded image is still the replay of the
\* page's committed sequence.
C29_ExportEmbedsCommittedOnly ==
    [][\A p \in Pages :
        (/\ Len(exp'.embedded[p]) > Len(exp.embedded[p])
         /\ isDrawing[p]
         /\ Len(currentStroke[p]) >= 2)
        => exp'.embedded[p][Len(exp'.embedded[p])]
              = ReplayStrokes(BlankRaster, strokes[p])]_vars

\* C30: an export changes neither the source file nor the annotation store
\* and builds its document from the source alone: a page with strokes in
\* the store carries exactly one overlay, a page without carries none, and
\* a successful export that works from the same store contents as the
\* successful export before it hands over the same document.
C30_RepeatedExportSameDocument ==
    [][/\ exp' # exp => (pdfFile' = pdfFile /\ pdfAnnotations' = pdfAnnotations)
       /\ (exp.pc = "save" /\ exp'.pc = "done")
          => /\ \A p \in 1..pdfFile.pages :
                   Len(exp'.embedded[p]) =
                      IF Len(exp'.annotations[p]) > 0 THEN 1 ELSE 0
             /\ (exported.saved /\ exported.annotations = exp'.annotations)
                   => exp'.embedded = exported.embedded]_vars

\* C31: Clear in PDF mode, with the re-render and the effects it causes,
\* leaves every mounted page controller that held strokes with an empty
\* committed sequence and a blank raster.
C31_ClearBlanksPages ==
    [][(handleClear /\ mode = "pdf")
        => \A p \in Pages :
              (Mounted(p) /\ strokes[p] # <<>>)
              => (strokes'[p] = <<>> /\ raster'[p] = BlankRaster)]_vars

\* C32: a mode switch leaves the annotation store as it is, and when the
\* pages are shown again after a switch to whiteboard mode and back, with
\* the store still as it was, every page controller that was idle at the
\* switch has the committed sequence and the raster it had then.
C32_ModeRoundTripKeepsPages ==
    [][/\ (\E m \in {"whiteboard", "pdf"} : setMode(m))
          => pdfAnnotations' = pdfAnnotations
       /\ (/\ onDocumentLoadSuccess
           /\ hidden.saved
           /\ pdfAnnotations = hidden.annotations)
          => \A p \in 1..pdfFile.pages :
                ~hidden.isDrawing[p]
                => /\ strokes'[p] = hidden.strokes[p]
                   /\ raster'[p] = hidden.raster[p]]_vars

\* C33: no step taken in PDF mode (annotating, Clear, export, the switch
\* back) and no mode switch changes the whiteboard raster, and in PDF mode
\* the whiteboard's pointer state does not move, so the whiteboard shows
\* after a round trip through PDF mode what it showed before.
C33_HiddenWhiteboardKeepsRaster ==
    [][/\ mode = "pdf"
          => /\ wbRaster' = wbRaster
             /\ wbIsDrawing' = wbIsDrawing
             /\ wbLastPos' = wbLastPos
       /\ mode' # mode => wbRaster' = wbRaster]_vars

\* Clear has just run in PDF mode, after an export of the annotated page,
\* while the hidden whiteboard holds paint
C33_Witness ==
    /\ mode = "pdf"
    /\ lastOp = "handleClear"
    /\ pdfAnnotations = NoAnnotations
    /\ exp.pc = "done"
    /\ exp.embedded[1] # <<>>
    /\ wbRaster # BlankRaster

\* a point as getCoordinates must give it: a client position minus the
\* origin of the canvas' bounding box, in CSS pixels
IsLocalPoint(pt) ==
    \E e \in ClientPoints :
        pt = [x |-> e.x - CanvasRect.left, y |-> e.y - CanvasRect.top]

\* C34: after every allocation and resize the context of each mounted page
\* canvas and of the whiteboard canvas is scaled by the device pixel ratio
\* once, and every point captured or committed is the pointer position
\* minus the canvas origin, not multiplied by the ratio.
C34_ScaleAppliedOnce ==
    /\ wbScale = devicePixelRatio
    /\ \A p \in Pages :
          /\ Mounted(p) => scale[p] = devicePixelRatio
          /\ \A i \in 1..Len(currentStroke[p]) :
                IsLocalPoint(currentStroke[p][i])
          /\ \A i \in 1..Len(strokes[p]) :
                \A j \in 1..Len(strokes[p][i].points) :
                    IsLocalPoint(strokes[p][i].points[j])
    /\ \A i \in 1..Len(wbLastPos) : IsLocalPoint(wbLastPos[i])

\* the page canvases have just been resized, after the whiteboard canvas
\* was resized too, on a zoomed-out display; the page holds a stroke
C34_Witness ==
    /\ lastOp = "pageResize"
    /\ wbCtx = DefaultCtx
    /\ devicePixelRatio < 100
    /\ Mounted(1)
    /\ scale[1] = devicePixelRatio
    /\ strokes[1] # <<>>

\* C35: while a request started by send or capture is waiting for its
\* analysis or for its speech, the processing flag is true, and at most one
\* such request is in flight, whatever the order of send, capture, Stop and
\* the arrival of responses.
C35_ProcessingFlagCoversRequests ==
    /\ InFlight # {} => isProcessing
    /\ Cardinality(InFlight) <= 1

=============================================================================
